---- MODULE Spec2Model ----
(***************************************************************************)
(* socfs: a FUSE filesystem exposing the registers of a SoC, described by  *)
(* a binary descriptor file, as /<top>/<reg> files backed by /dev/mem.     *)
(*                                                                         *)
(* C strings are sequences of one-character strings; the terminating NUL   *)
(* is the character read at any index past the end of the sequence.        *)
(* 64-bit values are sequences of 8 bytes, least significant first.        *)
(***************************************************************************)
EXTENDS Integers, Sequences, FiniteSets

VARIABLES phase, boot, header, mem_fd, mem, live, last

vars == <<phase, boot, header, mem_fd, mem, live, last>>

-----------------------------------------------------------------------------
(* Bounds of the model *)

MaxTops == 2
MaxLive == 1
InitByte == 165

-----------------------------------------------------------------------------
(* Program constants *)

SOC_MAGIC == 1470311373
SOC_VERSION == 1

ENOENT == 2
EFAULT == 14
EINVAL == 22

PageSize == 4096
MapWidth == 4

HeaderSize == 44
TopSize == 40
RegSize == 76

NUL == "NUL"
SLASH == "/"

-----------------------------------------------------------------------------
(* C string primitives *)

CharAt(s, i) == IF i >= 1 /\ i <= Len(s) THEN s[i] ELSE NUL

Drop(s, k) == IF k >= Len(s) THEN <<>> ELSE SubSeq(s, k + 1, Len(s))

RECURSIVE StrnEqFrom(_, _, _, _)
StrnEqFrom(s1, s2, i, n) ==
    IF n = 0 THEN TRUE
    ELSE IF CharAt(s1, i) # CharAt(s2, i) THEN FALSE
    ELSE IF CharAt(s1, i) = NUL THEN TRUE
    ELSE StrnEqFrom(s1, s2, i + 1, n - 1)

\* strncmp(s1, s2, n) == 0; n is a size_t, so a negative n is a huge count
strncmp0(s1, s2, n) ==
    StrnEqFrom(s1, s2, 1, IF n < 0 THEN Len(s1) + Len(s2) + 1 ELSE n)

\* strcmp(s1, s2) == 0
strcmp0(s1, s2) == StrnEqFrom(s1, s2, 1, Len(s1) + Len(s2) + 1)

\* index(s, c) / strchr(s, c): position of the first c in s, 0 for NULL
index(s, c) ==
    IF \E i \in 1..Len(s) : s[i] = c
    THEN CHOOSE i \in 1..Len(s) : s[i] = c /\ \A j \in 1..(i - 1) : s[j] # c
    ELSE 0

strlen(s) == Len(s)

-----------------------------------------------------------------------------
(* The descriptor: struct soc_header, struct top, struct reg *)

NULL == [name |-> <<>>, addr |-> -1, width |-> 0]
NoTop == [off |-> 0, name |-> <<>>, reg_count |-> 0, next_offset |-> 0, regs |-> <<>>]
NoHeader == [magic |-> 0, version |-> 0, top_count |-> 0, tops |-> {}]

Reg(n, a, w) == [name |-> n, addr |-> a, width |-> w]

\* The record of struct top found at byte offset off of the mapped file
TopAt(h, off) ==
    IF \E t \in h.tops : t.off = off
    THEN CHOOSE t \in h.tops : t.off = off
    ELSE NoTop

\* The descriptor file of a sequence of blocks: each top record is followed
\* inline by its regs, and next_offset is the offset of the record after it.
RECURSIVE LayTops(_, _)
LayTops(blocks, off) ==
    IF blocks = <<>> THEN {}
    ELSE LET b == Head(blocks)
             nxt == off + TopSize + RegSize * Len(b.regs)
         IN {[off |-> off, name |-> b.name, reg_count |-> Len(b.regs),
              next_offset |-> nxt, regs |-> b.regs]}
            \cup LayTops(Tail(blocks), nxt)

MakeHeader(magic, version, blocks) ==
    [magic |-> magic, version |-> version, top_count |-> Len(blocks),
     tops |-> LayTops(blocks, HeaderSize)]

-----------------------------------------------------------------------------
(* Path resolution *)

RECURSIVE find_top_loop(_, _, _, _, _)
find_top_loop(h, name, len, i, off) ==
    IF i >= h.top_count THEN NoTop
    ELSE LET top == TopAt(h, off) IN
         IF strncmp0(name, top.name, len) THEN top
         ELSE find_top_loop(h, name, len, i + 1, top.next_offset)

find_top(h, name, len) == find_top_loop(h, name, len, 0, HeaderSize)

RECURSIVE find_reg_loop(_, _, _)
find_reg_loop(top, rname, i) ==
    IF i > top.reg_count THEN NULL
    ELSE IF strcmp0(rname, top.regs[i].name) THEN top.regs[i]
    ELSE find_reg_loop(top, rname, i + 1)

\* name is the whole path; name + 1 skips the leading '/'.
\* idx = index(name + 1, '/') - 1 points at the last character of the block
\* segment, so len = idx - (name + 1) is one less than the segment's length.
find_reg(h, name) ==
    LET rest == Drop(name, 1)
        idx == index(rest, SLASH) - 1
        len == idx - 1
        top == find_top(h, rest, len)
    IN IF top = NoTop THEN NULL
       ELSE find_reg_loop(top, Drop(rest, idx + 1), 1)

-----------------------------------------------------------------------------
(* 64-bit values, hexadecimal text *)

Zero64 == [i \in 1..8 |-> 0]

HexChars == <<"0", "1", "2", "3", "4", "5", "6", "7",
              "8", "9", "a", "b", "c", "d", "e", "f">>
DecChars == {HexChars[i] : i \in 1..10}

HexVal(c) == (CHOOSE i \in 1..16 : HexChars[i] = c) - 1

\* The nibbles of a 64-bit value, most significant first
Nibbles(v) ==
    [k \in 1..16 |-> LET b == v[8 - ((k - 1) \div 2)]
                     IN IF k % 2 = 1 THEN b \div 16 ELSE b % 16]

RECURSIVE StripZeros(_)
StripZeros(ns) ==
    IF Len(ns) > 1 /\ Head(ns) = 0 THEN StripZeros(Tail(ns)) ELSE ns

\* printf("%llx") of a 64-bit value held as bytes
HexOfBytes(v) ==
    LET ns == StripZeros(Nibbles(v)) IN [k \in 1..Len(ns) |-> HexChars[ns[k] + 1]]

RECURSIVE HexOfNat(_)
\* printf("%llx") of a value held as a number
HexOfNat(n) ==
    IF n < 16 THEN <<HexChars[n + 1]>>
    ELSE Append(HexOfNat(n \div 16), HexChars[(n % 16) + 1])

RECURSIVE Pow256(_)
Pow256(k) == IF k = 0 THEN 1 ELSE 256 * Pow256(k - 1)

\* The 64-bit representation of a number below 2^31
BytesOfNat(n) == [i \in 1..8 |-> IF i <= 3 THEN (n \div Pow256(i - 1)) % 256
                                  ELSE IF i = 4 THEN n \div Pow256(3) ELSE 0]

\* The 64-bit value of a sequence of nibbles (most significant first), mod 2^64
BytesOfNibbles(ns) ==
    LET n == Len(ns)
        nib(j) == IF j >= 1 THEN ns[j] ELSE 0
    IN [i \in 1..8 |-> 16 * nib(n - 2 * i + 1) + nib(n - 2 * i + 2)]

-----------------------------------------------------------------------------
(* parse_input (misc.h): 0x-prefixed hexadecimal or decimal, trailing bytes *)
(* after the numeric token ignored; 0 on success                           *)

RECURSIVE RunLen(_, _, _)
\* Length of the maximal run of characters of set cs starting at s[i]
RunLen(s, i, cs) ==
    IF i <= Len(s) /\ s[i] \in cs THEN 1 + RunLen(s, i + 1, cs) ELSE 0

RECURSIVE DecValue(_, _)
DecValue(s, n) ==
    IF n = 0 THEN 0 ELSE 10 * DecValue(s, n - 1) + HexVal(s[n])

parse_input(buf) ==
    LET hexset == {HexChars[i] : i \in 1..16}
        hexrun == RunLen(buf, 3, hexset)
        decrun == RunLen(buf, 1, DecChars)
    IN IF CharAt(buf, 1) = "0" /\ CharAt(buf, 2) = "x" /\ hexrun > 0
       THEN [err |-> 0,
             val |-> BytesOfNibbles([k \in 1..hexrun |-> HexVal(buf[k + 2])])]
       ELSE IF decrun > 0
       THEN [err |-> 0, val |-> BytesOfNat(DecValue(buf, decrun))]
       ELSE [err |-> 1, val |-> Zero64]

-----------------------------------------------------------------------------
(* Inputs: descriptor files, paths, write payloads, read sizes *)

Widths == {8, 16, 32, 64}

\* 0x10000000
RegBase == 65536 * PageSize

NameAB == <<"a", "b">>
NameB == <<"b">>
NameX == <<"x">>
NameY == <<"y">>
NameZ == <<"z">>

\* Register lists: an aligned 32-bit register and a 64-bit register ending
\* past a page boundary; an 8-bit and a 16-bit register on the last byte of
\* a page and a register whose width is not supported.
RegsCtl == << Reg(NameX, RegBase, 32), Reg(NameY, RegBase + PageSize - 4, 64) >>
RegsAux == << Reg(NameX, RegBase + 2 * PageSize - 1, 8),
              Reg(NameZ, RegBase + 16, 24),
              Reg(NameY, RegBase + 3 * PageSize - 1, 16) >>

RegLists == {RegsCtl, RegsAux}

Block(n, rs) == [name |-> n, regs |-> rs]

Blocks == {Block(NameAB, RegsCtl), Block(NameB, RegsAux)}

BlockSeqs == UNION {[1..n -> Blocks] : n \in 0..MaxTops}

Files ==
    {MakeHeader(SOC_MAGIC, SOC_VERSION, bs) : bs \in BlockSeqs}
    \cup {MakeHeader(SOC_MAGIC + 1, SOC_VERSION, <<>>),
          MakeHeader(SOC_MAGIC, SOC_VERSION + 1, <<>>)}

PathBlocks == {NameAB, NameB, <<"a", "c">>}
PathRegs == {NameX, NameY, NameZ}

\* "/b/r"
RegPaths == {<<SLASH>> \o b \o <<SLASH>> \o r : b \in PathBlocks, r \in PathRegs}
\* "/", "/b" and one register path
DirPaths == {<<SLASH>>, <<SLASH, "a">>} \cup {<<SLASH>> \o b : b \in PathBlocks}
            \cup {<<SLASH>> \o NameAB \o <<SLASH>> \o NameX}

Payloads ==
    { <<"3", "0", "0">>,
      <<"0", "x", "1", "2", "c">>,
      <<"z", "z">> }

ReadSizes == {4, PageSize}

\* The physical bytes the registers of the model cover
MemAddrs ==
    UNION {UNION {{rl[i].addr + k : k \in 0..((rl[i].width \div 8) - 1)}
                  : i \in DOMAIN rl} : rl \in RegLists}

\* What an access past the end of the mapped window does: the process takes
\* a SIGSEGV, or the bytes past the window belong to whatever else is mapped
\* there (read as g, stored outside the physical window).
OobOutcomes == {"segv", "g00", "gff"}
GarbageByte(o) == IF o = "g00" THEN 0 ELSE 255

-----------------------------------------------------------------------------
(* Register access *)

NoMap == [map_base |-> 0, offset_in_page |-> 0, mapped_size |-> 0, virt_addr |-> 0]

\* The window map_mem computes; map_base and virt_addr are given as the
\* physical addresses they are mapped onto.
\* x & (page_size - 1) is x % page_size, page_size being a power of two.
map_mem(target, width) ==
    LET page_size == PageSize
        offset_in_page == target % page_size
        mapped_size == IF offset_in_page + width > page_size
                       THEN 2 * page_size ELSE page_size
        map_base == target - (target % page_size)
    IN [map_base |-> map_base, offset_in_page |-> offset_in_page,
        mapped_size |-> mapped_size, virt_addr |-> map_base + offset_in_page]

\* Whether the nbytes at virt_addr lie inside the mapped window
InWindow(map, nbytes) ==
    map.virt_addr + nbytes <= map.map_base + map.mapped_size

\* One volatile load of nbytes at virt_addr, zero-extended to 64 bits
Load(m, map, nbytes, g) ==
    [i \in 1..8 |->
        IF i > nbytes THEN 0
        ELSE IF map.virt_addr + i - 1 < map.map_base + map.mapped_size
        THEN m[map.virt_addr + i - 1] ELSE g]

\* One volatile store of the low nbytes of val at virt_addr
Store(m, map, nbytes, val) ==
    [a \in DOMAIN m |->
        IF a >= map.virt_addr /\ a < map.virt_addr + nbytes
           /\ a < map.map_base + map.mapped_size
        THEN val[a - map.virt_addr + 1] ELSE m[a]]

-----------------------------------------------------------------------------
(* The record of the last filesystem call *)

NoCall ==
    [op |-> "none", path |-> <<>>, returned |-> FALSE, ret |-> 0, out |-> <<>>,
     size |-> 0, payload |-> <<>>, reg |-> NULL, map |-> NoMap,
     maps |-> 0, unmaps |-> 0, stored |-> FALSE, wrote |-> 0]

Return(call, m, l) ==
    /\ last' = [call EXCEPT !.returned = TRUE]
    /\ mem' = m
    /\ live' = l
    /\ UNCHANGED <<phase, boot, header, mem_fd>>

\* SIGSEGV: the process dies inside the call, its mappings with it
Crash(call) ==
    /\ last' = call
    /\ phase' = "crashed"
    /\ live' = 0
    /\ UNCHANGED <<boot, header, mem_fd, mem>>

-----------------------------------------------------------------------------
(* The filesystem callbacks. The callbacks share no state that any of them  *)
(* changes, except physical memory, which each touches in one access: each *)
(* call is one step.                                                       *)

\* A loop over the tops that never advances top to top->next_offset
root_names_NoAdvance(h, i, off) ==
    [k \in 1..h.top_count |-> TopAt(h, HeaderSize).name]

RECURSIVE root_names(_, _, _)
\* The loop of soc_readdir over the tops: the names it hands to filler
root_names(h, i, off) ==
    IF i >= h.top_count THEN <<>>
    ELSE LET top == TopAt(h, off)
         IN <<top.name>> \o root_names(h, i + 1, top.next_offset)

DOT == <<".">>
DOTDOT == <<".", ".">>

soc_readdir(path) ==
    LET call == [NoCall EXCEPT !.op = "readdir", !.path = path]
        top == find_top(header, Drop(path, 1), strlen(Drop(path, 1)))
    IN
    /\ phase = "serving"
    /\ IF strcmp0(path, <<SLASH>>)
       THEN Return([call EXCEPT !.out = <<DOT, DOTDOT>>
                                        \o root_names(header, 0, HeaderSize)],
                   mem, live)
       ELSE IF index(Drop(path, 1), SLASH) = 0
       THEN IF top = NoTop
            THEN Return([call EXCEPT !.ret = -ENOENT], mem, live)
            ELSE Return([call EXCEPT !.out = <<DOT, DOTDOT>>
                            \o [i \in 1..top.reg_count |-> top.regs[i].name]],
                        mem, live)
       ELSE Return([call EXCEPT !.ret = -ENOENT], mem, live)

\* sprintf(buf, "0x%llx -> 0x%llx\n", addr, result)
sprintf_reg(addr, result) ==
    <<"0", "x">> \o HexOfNat(addr) \o <<" ", "-", ">", " ", "0", "x">>
    \o HexOfBytes(result) \o <<"\n">>

\* What mmap can do: grant the mapping or fail; with a bad descriptor it fails
MmapOutcomes(fd) == IF fd >= 0 THEN {TRUE, FALSE} ELSE {FALSE}

\* What the access at virt_addr can do: inside the window it is performed;
\* past the window the outcome is not defined by the program
AccessOutcomes(map, nbytes) ==
    IF InWindow(map, nbytes) THEN {"g00"} ELSE OobOutcomes

soc_read(path, size) ==
    LET reg == find_reg(header, path)
        map == map_mem(reg.addr, MapWidth)
        call == [NoCall EXCEPT !.op = "read", !.path = path, !.size = size,
                               !.reg = reg]
        mapped == [call EXCEPT !.maps = 1, !.map = map]
    IN
    /\ phase = "serving"
    /\ IF reg = NULL
       THEN Return([call EXCEPT !.ret = -ENOENT], mem, live)
       ELSE \E mmap_ok \in MmapOutcomes(mem_fd) :
            IF ~mmap_ok
            THEN Return([call EXCEPT !.ret = -EFAULT, !.maps = 1], mem, live)
            ELSE IF reg.width \notin Widths
            THEN /\ live < MaxLive
                 /\ Return([mapped EXCEPT !.ret = -EFAULT], mem, live + 1)
            ELSE \E oob \in AccessOutcomes(map, reg.width \div 8) :
                 IF oob = "segv"
                 THEN Crash(mapped)
                 ELSE LET result == Load(mem, map, reg.width \div 8,
                                         GarbageByte(oob))
                          text == sprintf_reg(reg.addr, result)
                      IN Return([mapped EXCEPT !.unmaps = 1, !.out = text,
                                    !.ret = Len(text), !.wrote = Len(text) + 1],
                                mem, live)

\* A soc_write that maps the register before it parses the payload
soc_write_MapFirst(path, buf) ==
    LET reg == find_reg(header, path)
        parsed == parse_input(buf)
        map == map_mem(reg.addr, MapWidth)
        call == [NoCall EXCEPT !.op = "write", !.path = path, !.payload = buf,
                               !.size = Len(buf), !.reg = reg]
        mapped == [call EXCEPT !.maps = 1, !.map = map]
    IN
    /\ phase = "serving"
    /\ IF reg = NULL
       THEN Return([call EXCEPT !.ret = -ENOENT], mem, live)
       ELSE \E mmap_ok \in MmapOutcomes(mem_fd) :
            IF ~mmap_ok
            THEN Return([call EXCEPT !.ret = -EFAULT, !.maps = 1], mem, live)
            ELSE IF parsed.err # 0
            THEN Return([mapped EXCEPT !.unmaps = 1, !.ret = -EINVAL], mem, live)
            ELSE IF reg.width \notin Widths
            THEN /\ live < MaxLive
                 /\ Return([mapped EXCEPT !.ret = -EFAULT], mem, live + 1)
            ELSE \E oob \in AccessOutcomes(map, reg.width \div 8) :
                 IF oob = "segv"
                 THEN Crash(mapped)
                 ELSE Return([mapped EXCEPT !.unmaps = 1, !.stored = TRUE,
                                            !.ret = Len(buf)],
                             Store(mem, map, reg.width \div 8, parsed.val), live)

soc_write(path, buf) ==
    LET reg == find_reg(header, path)
        parsed == parse_input(buf)
        writeval == parsed.val
        map == map_mem(reg.addr, MapWidth)
        call == [NoCall EXCEPT !.op = "write", !.path = path, !.payload = buf,
                               !.size = Len(buf), !.reg = reg]
        mapped == [call EXCEPT !.maps = 1, !.map = map]
    IN
    /\ phase = "serving"
    /\ IF reg = NULL
       THEN Return([call EXCEPT !.ret = -ENOENT], mem, live)
       ELSE IF parsed.err # 0
       THEN Return([call EXCEPT !.ret = -EINVAL], mem, live)
       ELSE \E mmap_ok \in MmapOutcomes(mem_fd) :
            IF ~mmap_ok
            THEN Return([call EXCEPT !.ret = -EFAULT, !.maps = 1], mem, live)
            ELSE IF reg.width \notin Widths
            THEN /\ live < MaxLive
                 /\ Return([mapped EXCEPT !.ret = -EFAULT], mem, live + 1)
            ELSE \E oob \in AccessOutcomes(map, reg.width \div 8) :
                 IF oob = "segv"
                 THEN Crash(mapped)
                 ELSE Return([mapped EXCEPT !.unmaps = 1, !.stored = TRUE,
                                            !.ret = Len(buf)],
                             Store(mem, map, reg.width \div 8, writeval), live)

-----------------------------------------------------------------------------
(* Startup *)

\* What the command line and the system calls of main give it
NoBoot == [show_help |-> FALSE, has_filename |-> FALSE, malloc_ok |-> FALSE,
           soc_open_ok |-> FALSE, soc_mmap_ok |-> FALSE,
           devmem_open_ok |-> FALSE]

BootInputs ==
    [show_help : BOOLEAN, has_filename : BOOLEAN, malloc_ok : BOOLEAN,
     soc_open_ok : BOOLEAN, soc_mmap_ok : BOOLEAN, devmem_open_ok : BOOLEAN]

\* open() returns a descriptor >= 0, or -1
OpenFd(ok) == IF ok THEN 3 ELSE -1

\* The process ends before fuse_main serves: exit, return, or a fault
Stop(b, ph, h, fd) ==
    /\ phase' = ph
    /\ boot' = b
    /\ header' = h
    /\ mem_fd' = fd
    /\ UNCHANGED <<mem, live, last>>

\* main up to fuse_main: where it stops, or the private data it serves with.
\* file is the content of the file --soc_file names.
main(b, file) ==
    LET soc_file == OpenFd(b.soc_open_ok)
        fd == OpenFd(b.devmem_open_ok)
    IN
    /\ phase = "start"
    /\ IF b.show_help
       THEN Stop(b, "exited", header, mem_fd)  \* fuse_main prints the help
       ELSE IF ~b.has_filename
       THEN Stop(b, "exited", header, mem_fd)
       ELSE IF ~b.malloc_ok
       THEN Stop(b, "exited", header, mem_fd)
       ELSE IF soc_file = 0
       THEN Stop(b, "exited", header, mem_fd)
       \* mmap never returns NULL, so !private->header never stops main
       ELSE IF fd = 0
       THEN Stop(b, "exited", file, fd)
       \* open failed with -1, or mmap failed: private->header is MAP_FAILED;
       \* reading header->magic through it (the last byte of the address
       \* space, which no process has mapped) faults
       ELSE IF soc_file < 0 \/ ~b.soc_mmap_ok
       THEN Stop(b, "crashed", header, fd)
       ELSE IF file.magic # SOC_MAGIC \/ file.version # SOC_VERSION
       THEN Stop(b, "exited", file, fd)
       ELSE /\ phase' = "serving"
            /\ boot' = b
            /\ header' = file
            /\ mem_fd' = fd
            /\ UNCHANGED <<mem, live, last>>

-----------------------------------------------------------------------------

Init ==
    /\ phase = "start"
    /\ boot = NoBoot
    /\ header = NoHeader
    /\ mem_fd = -1
    /\ mem = [a \in MemAddrs |-> InitByte]
    /\ live = 0
    /\ last = NoCall

Main == \E b \in BootInputs, file \in Files : main(b, file)

Readdir == \E path \in DirPaths : soc_readdir(path)

Read ==
    \E path \in RegPaths, size \in ReadSizes : soc_read(path, size)

Write ==
    \E path \in RegPaths, buf \in Payloads : soc_write(path, buf)

Next == Main \/ Readdir \/ Read \/ Write

Spec == Init /\ [][Next]_vars

-----------------------------------------------------------------------------
(* What the descriptor says, independently of how the callbacks walk it *)

\* The i-th top record of the file, by position in the file
OnDisk(h, i) ==
    CHOOSE t \in h.tops : Cardinality({u \in h.tops : u.off < t.off}) = i - 1

UniqueBlockNames(h) ==
    \A t, u \in h.tops : t.name = u.name => t = u

\* The first block, in on-disk order, named exactly b; NoTop if there is none
BlockNamed(h, b) ==
    IF \E t \in h.tops : t.name = b
    THEN CHOOSE t \in h.tops :
            /\ t.name = b
            /\ \A u \in h.tops : u.name = b => t.off <= u.off
    ELSE NoTop

\* The first register of block top named exactly r; NULL if there is none
RegNamed(top, r) ==
    IF \E i \in 1..Len(top.regs) : top.regs[i].name = r
    THEN top.regs[CHOOSE i \in 1..Len(top.regs) :
                    /\ top.regs[i].name = r
                    /\ \A j \in 1..(i - 1) : top.regs[j].name # r]
    ELSE NULL

\* The segments b and r of a path "/b/r"
SegBlock(path) == SubSeq(path, 2, index(Drop(path, 1), SLASH))
SegReg(path) == Drop(path, index(Drop(path, 1), SLASH) + 1)

Mask(v, w) == [i \in 1..8 |-> IF 8 * i <= w THEN v[i] ELSE 0]

IsRegCall == last.op \in {"read", "write"} /\ last.returned

StartupSucceeded ==
    /\ ~boot.show_help /\ boot.has_filename /\ boot.malloc_ok
    /\ boot.soc_open_ok /\ boot.soc_mmap_ok /\ boot.devmem_open_ok
    /\ header.magic = SOC_MAGIC /\ header.version = SOC_VERSION

-----------------------------------------------------------------------------
(* The claims *)

\* C1: with unique block names, a read or write of "/b/r" resolves to NULL
\* when no block is named exactly b or the block named b has no register
\* named exactly r, and otherwise to the register named r of the block named b.
C1_ResolveExact ==
    (IsRegCall /\ UniqueBlockNames(header)) =>
        last.reg = LET top == BlockNamed(header, SegBlock(last.path))
                   IN IF top = NoTop THEN NULL
                      ELSE RegNamed(top, SegReg(last.path))

\* C2: the mapping a read or write of a register of supported width w makes
\* is two pages exactly when offset_in_page + w/8 > page_size, one page
\* otherwise, and [virt_addr, virt_addr + w/8) lies inside the mapped window.
C2_WindowCoversAccess ==
    (IsRegCall /\ last.map # NoMap /\ last.reg.width \in Widths) =>
        LET nbytes == last.reg.width \div 8
            map == last.map
        IN /\ map.offset_in_page = last.reg.addr % PageSize
           /\ map.mapped_size = IF map.offset_in_page + nbytes > PageSize
                                THEN 2 * PageSize ELSE PageSize
           /\ map.virt_addr >= map.map_base
           /\ map.virt_addr + nbytes <= map.map_base + map.mapped_size

\* C3: a successful write of the parsed value v to a register r of supported
\* width w, followed at once by a successful read of r, reads the text
\* "0x<r.addr> -> 0x<v mod 2^w>\n".
C3_WriteThenRead ==
    [][(/\ last.op = "write" /\ last.returned /\ last.stored
        /\ last'.op = "read" /\ last'.returned /\ last'.ret >= 0
        /\ last'.reg = last.reg
        /\ last.reg.width \in Widths)
       => last'.out = sprintf_reg(last.reg.addr,
                                  Mask(parse_input(last.payload).val,
                                       last.reg.width))]_vars

\* C4: a read that resolves to a register of unsupported width fails and
\* makes no mapping call.
C4_InvalidWidthNoMap ==
    (last.op = "read" /\ last.returned /\ last.reg # NULL
     /\ last.reg.width \notin Widths)
        => (last.ret < 0 /\ last.maps = 0)

\* C5: a write that resolves to a register and whose payload does not parse
\* fails with EINVAL, makes no mapping call and leaves physical memory and
\* the set of live mappings as they were.
C5_ParseErrorNoMap ==
    [][(last'.op = "write" /\ last'.returned /\ last'.reg # NULL
        /\ parse_input(last'.payload).err # 0)
       => (/\ last'.ret = -EINVAL
           /\ last'.maps = 0
           /\ ~last'.stored
           /\ mem' = mem
           /\ live' = live)]_vars

C5_Witness ==
    /\ last.op = "write" /\ last.returned /\ last.reg # NULL
    /\ parse_input(last.payload).err # 0
    /\ last.ret = -EINVAL

\* C6: a filesystem request is served only after a startup in which the
\* private data was allocated, the descriptor file and /dev/mem were opened,
\* and the descriptor carries the magic and version 1.
C6_ServeOnlyAfterStartup ==
    (phase = "serving" \/ last.op # "none") => StartupSucceeded

\* C7: readdir of "/" succeeds and emits ".", "..", then the name of every
\* block once, in on-disk order: top_count + 2 entries; when block names are
\* unique no block entry appears twice.
C7_RootListing ==
    (last.op = "readdir" /\ last.returned /\ last.path = <<SLASH>>) =>
        /\ last.ret = 0
        /\ Len(last.out) = header.top_count + 2
        /\ last.out[1] = DOT
        /\ last.out[2] = DOTDOT
        /\ \A i \in 1..header.top_count : last.out[i + 2] = OnDisk(header, i).name
        /\ UniqueBlockNames(header) =>
              \A i, j \in 3..Len(last.out) : last.out[i] = last.out[j] => i = j

C7_Witness ==
    /\ last.op = "readdir" /\ last.returned /\ last.path = <<SLASH>>
    /\ header.top_count = 2
    /\ UniqueBlockNames(header)
    /\ Len(last.out) = 4

\* C8: readdir of "/b" fails with ENOENT when no block is named exactly b
\* (so also when b is only a proper prefix of a block name); otherwise it
\* emits ".", "..", then the register names of the first block named b.
C8_BlockListing ==
    (last.op = "readdir" /\ last.returned /\ last.path # <<SLASH>>
     /\ index(Drop(last.path, 1), SLASH) = 0) =>
        LET top == BlockNamed(header, Drop(last.path, 1))
        IN IF top = NoTop
           THEN last.ret = -ENOENT /\ last.out = <<>>
           ELSE /\ last.ret = 0
                /\ last.out = <<DOT, DOTDOT>>
                              \o [i \in 1..Len(top.regs) |-> top.regs[i].name]

\* C9: between calls no mapping is live, whatever the calls returned.
C9_NoLiveMapping ==
    phase = "serving" => live = 0

\* C10: a read that resolves to a register returns at most size, and writes
\* at most size bytes into buf.
C10_ReadWithinSize ==
    (last.op = "read" /\ last.returned /\ last.reg # NULL) =>
        (last.ret <= last.size /\ last.wrote <= last.size)

====
